---- MODULE Spec2Model ----
(***************************************************************************)
(* Model of visualization/main.py, the "Simple Stock Visualizer".          *)
(*                                                                         *)
(* The script is re-run from top to bottom on every user interaction.  One *)
(* run is one render pass: it reads the widgets (data source, uploaded     *)
(* files or folder path, selected symbol), loads the Dataset and renders.  *)
(* The state kept between passes is the disk and the memo table that       *)
(* @st.cache_data keeps for load_data_from_folder; `pass` is what the last *)
(* pass did and showed.                                                    *)
(***************************************************************************)
EXTENDS Integers, Sequences, FiniteSets, TLC

VARIABLES disk, cache, pass

vars == <<disk, cache, pass>>

(***************************************************************************)
(* Bounds of the model.                                                    *)
(***************************************************************************)
MaxUpload == 2        \* files selected in the uploader in one pass
MaxFolderFiles == 2   \* *.csv files present in one folder

(***************************************************************************)
(* Values of a parsed table.  pd.read_csv turns an empty cell into NaN;    *)
(* pd.to_datetime turns NaN into NaT and raises on text that is no date.   *)
(***************************************************************************)
NaN == "nan"
NaT == 0

Range(s) == {s[i] : i \in DOMAIN s}

Min(S) == CHOOSE x \in S : \A y \in S : x <= y
Max(S) == CHOOSE x \in S : \A y \in S : y <= x

RECURSIVE Perms(_)
Perms(S) ==
    IF S = {} THEN {<<>>}
    ELSE UNION {{<<x>> \o t : t \in Perms(S \ {x})} : x \in S}

SeqsUpTo(S, n) == UNION {[1..k -> S] : k \in 0..n}

(***************************************************************************)
(* The CSV files of the model, by name.  parses = FALSE: pd.read_csv       *)
(* raises on it.  Rows are in file order; datetime is the text of the      *)
(* cell.  "12/31/2023" is earlier than "01/02/2024" although it is later   *)
(* as text.                                                                *)
(***************************************************************************)
Row(s, d, c) == [symbol |-> s, datetime |-> d, close |-> c]

Unparsable == [parses |-> FALSE, rows |-> <<>>]
Frame(rows) == [parses |-> TRUE, rows |-> rows]

FileNames ==
    {"broken.csv", "header.csv", "aapl.csv", "msft.csv", "goog.csv", "dup.csv",
     "blank.csv", "mixed.csv", "nodate.csv", "baddate.csv"}

FileContent(name) ==
    CASE name = "broken.csv" -> Unparsable
      [] name = "header.csv" -> Frame(<<>>)
      [] name = "aapl.csv" ->
            Frame(<<Row("AAPL", "01/02/2024", 20), Row("AAPL", "12/31/2023", 10)>>)
      [] name = "msft.csv" ->
            Frame(<<Row("MSFT", "12/31/2023", 30), Row("AAPL", "01/02/2024", 25)>>)
      [] name = "goog.csv" -> Frame(<<Row("GOOG", "01/02/2024", 15)>>)
      [] name = "dup.csv" ->
            Frame(<<Row("MSFT", "12/31/2023", 30), Row("MSFT", "12/31/2023", 30)>>)
      [] name = "blank.csv" -> Frame(<<Row(NaN, "12/31/2023", 10)>>)
      [] name = "mixed.csv" ->
            Frame(<<Row("GOOG", "", 45), Row(NaN, "01/02/2024", 5)>>)
      [] name = "nodate.csv" -> Frame(<<Row("AAPL", "", 40)>>)
      [] name = "baddate.csv" -> Frame(<<Row("MSFT", "not a date", 50)>>)

(***************************************************************************)
(* pd.read_csv(file): raises (ok = FALSE) or gives the table.              *)
(***************************************************************************)
read_csv(file) == [ok |-> FileContent(file).parses, df |-> FileContent(file).rows]

\* Faulty variant of the loop: it stops at the first file that fails.
RECURSIVE ReadUntilError(_)
ReadUntilError(files) ==
    IF files = <<>> THEN [read |-> <<>>, dfs |-> <<>>, failed |-> <<>>]
    ELSE LET file == Head(files)
             r == read_csv(file)
             rest == ReadUntilError(Tail(files))
         IN IF r.ok
            THEN [read |-> <<file>> \o rest.read,
                  dfs |-> <<r.df>> \o rest.dfs,
                  failed |-> rest.failed]
            ELSE [read |-> <<file>>, dfs |-> <<>>, failed |-> <<file>>]

(***************************************************************************)
(* The loop `for file in files: try: dfs.append(pd.read_csv(file))         *)
(* except: report`.  read: the files handed to read_csv, in order; dfs:    *)
(* the tables appended; failed: the files whose read raised, in order.     *)
(***************************************************************************)
RECURSIVE ReadAll(_)
ReadAll(files) ==
    IF files = <<>> THEN [read |-> <<>>, dfs |-> <<>>, failed |-> <<>>]
    ELSE LET file == Head(files)
             r == read_csv(file)
             rest == ReadAll(Tail(files))
         IN IF r.ok
            THEN [read |-> <<file>> \o rest.read,
                  dfs |-> <<r.df>> \o rest.dfs,
                  failed |-> rest.failed]
            ELSE [read |-> <<file>> \o rest.read,
                  dfs |-> rest.dfs,
                  failed |-> <<file>> \o rest.failed]

(***************************************************************************)
(* pd.concat(dfs, ignore_index=True): the rows of the tables, in order.    *)
(***************************************************************************)
RECURSIVE ConcatRows(_)
ConcatRows(dfs) ==
    IF dfs = <<>> THEN <<>> ELSE Head(dfs) \o ConcatRows(Tail(dfs))

\* Faulty variant of concat: a row is kept once (drop_duplicates).
RECURSIVE Distinct(_)
Distinct(rows) ==
    IF rows = <<>> THEN <<>>
    ELSE LET front == Distinct(SubSeq(rows, 1, Len(rows) - 1))
             row == rows[Len(rows)]
         IN IF row \in Range(front) THEN front ELSE Append(front, row)

concat_drop_duplicates(dfs) == Distinct(ConcatRows(dfs))

concat(dfs) == ConcatRows(dfs)

(***************************************************************************)
(* pd.to_datetime on one cell, and on the datetime column.                 *)
(***************************************************************************)
IsDate(cell) == cell \in {"", "12/31/2023", "01/02/2024"}

to_datetime(cell) ==
    CASE cell = "" -> NaT
      [] cell = "12/31/2023" -> 1
      [] cell = "01/02/2024" -> 2

ColumnIsDates(rows) == \A i \in DOMAIN rows : IsDate(rows[i].datetime)

CoerceDatetime(rows) ==
    [i \in DOMAIN rows |->
        [symbol |-> rows[i].symbol,
         datetime |-> to_datetime(rows[i].datetime),
         close |-> rows[i].close]]

(***************************************************************************)
(* What a call of a loader gives.  called and not returned: the call       *)
(* raised.  returned and not ok: it returned None.  reports: the           *)
(* st.error / st.warning messages of the loop, each naming a file.         *)
(* scanned: glob.glob ran.  files: what the loop iterated over.  read: the *)
(* files handed to pd.read_csv.                                            *)
(***************************************************************************)
Reports(level, failed) ==
    [i \in DOMAIN failed |-> [level |-> level, file |-> failed[i]]]

NotCalled ==
    [called |-> FALSE, returned |-> FALSE, ok |-> FALSE, data |-> <<>>, reports |-> <<>>,
     scanned |-> FALSE, files |-> <<>>, read |-> <<>>]

ReturnedNone(reports, scanned, files, read) ==
    [called |-> TRUE, returned |-> TRUE, ok |-> FALSE, data |-> <<>>, reports |-> reports,
     scanned |-> scanned, files |-> files, read |-> read]

ReturnedData(data, reports, scanned, files, read) ==
    [called |-> TRUE, returned |-> TRUE, ok |-> TRUE, data |-> data, reports |-> reports,
     scanned |-> scanned, files |-> files, read |-> read]

Raised(reports, scanned, files, read) ==
    [called |-> TRUE, returned |-> FALSE, ok |-> FALSE, data |-> <<>>, reports |-> reports,
     scanned |-> scanned, files |-> files, read |-> read]

\* Faulty variant of load_uploaded_data: a failing read is not reported.
load_uploaded_data_silent(uploaded_files) ==
    IF uploaded_files = <<>>
    THEN ReturnedNone(<<>>, FALSE, uploaded_files, <<>>)
    ELSE LET loop == ReadAll(uploaded_files)
         IN IF loop.dfs = <<>>
            THEN ReturnedNone(<<>>, FALSE, uploaded_files, loop.read)
            ELSE LET data == concat(loop.dfs)
                 IN IF ~ColumnIsDates(data)
                    THEN Raised(<<>>, FALSE, uploaded_files, loop.read)
                    ELSE ReturnedData(CoerceDatetime(data), <<>>, FALSE,
                                      uploaded_files, loop.read)

(***************************************************************************)
(* load_uploaded_data(uploaded_files)                                      *)
(***************************************************************************)
load_uploaded_data(uploaded_files) ==
    IF uploaded_files = <<>>
    THEN ReturnedNone(<<>>, FALSE, uploaded_files, <<>>)
    ELSE LET loop == ReadAll(uploaded_files)
             reports == Reports("error", loop.failed)
         IN IF loop.dfs = <<>>
            THEN ReturnedNone(reports, FALSE, uploaded_files, loop.read)
            ELSE LET data == concat(loop.dfs)
                 IN IF ~ColumnIsDates(data)
                    THEN Raised(reports, FALSE, uploaded_files, loop.read)
                    ELSE ReturnedData(CoerceDatetime(data), reports, FALSE,
                                      uploaded_files, loop.read)

(***************************************************************************)
(* The body of load_data_from_folder, given what glob.glob returned.       *)
(* glob.glob gives the *.csv files of the folder in an order the file      *)
(* system decides.                                                         *)
(***************************************************************************)
glob(folder) == Perms(folder.files)

load_data_from_folder(files) ==
    IF files = <<>>
    THEN ReturnedNone(<<>>, TRUE, files, <<>>)
    ELSE LET loop == ReadAll(files)
             reports == Reports("warning", loop.failed)
         IN IF loop.dfs = <<>>
            THEN ReturnedNone(reports, TRUE, files, loop.read)
            ELSE LET data == concat(loop.dfs)
                 IN IF ~ColumnIsDates(data)
                    THEN Raised(reports, TRUE, files, loop.read)
                    ELSE ReturnedData(CoerceDatetime(data), reports, TRUE,
                                      files, loop.read)

(***************************************************************************)
(* Lines 89-144: what the script shows for the loaded data.                *)
(***************************************************************************)
TailRows == 10

NoView ==
    [error |-> FALSE, success |-> FALSE, raised |-> FALSE,
     selector |-> FALSE, symbols |-> <<>>, selected_symbol |-> "",
     filtered_data |-> <<>>, warning |-> FALSE,
     metrics |-> FALSE, records |-> 0, date_min |-> NaT, date_max |-> NaT,
     latest_close |-> 0,
     chart |-> FALSE, table |-> <<>>, download |-> FALSE, csv |-> <<>>]

\* data['symbol'].unique(): the distinct values of the column.
unique(data) == {data[i].symbol : i \in DOMAIN data}

\* str.__lt__ on the symbols of the model.
StrRank(s) == CASE s = "AAPL" -> 1 [] s = "GOOG" -> 2 [] s = "MSFT" -> 3

RECURSIVE SortedStrings(_)
SortedStrings(S) ==
    IF S = {} THEN <<>>
    ELSE LET m == CHOOSE x \in S : \A y \in S : StrRank(x) <= StrRank(y)
         IN <<m>> \o SortedStrings(S \ {m})

\* sorted() compares with <: a float nan against a str raises TypeError;
\* a list holding nan alone is returned as it is.
Comparable(S) == NaN \notin S \/ S = {NaN}

sorted(S) == IF S = {NaN} THEN <<NaN>> ELSE SortedStrings(S)

\* data['symbol'] == selected_symbol, row by row: nan equals nothing.
SeriesEq(value, selected) == value # NaN /\ selected # NaN /\ value = selected

Filter(data, selected_symbol) ==
    SelectSeq(data, LAMBDA row : SeriesEq(row.symbol, selected_symbol))

\* sort_values('datetime'): ascending, NaT last (na_position='last'); the
\* default kind is quicksort, so rows with equal datetime come in any order.
Before(a, b) == a # NaT /\ (b = NaT \/ a < b)

RECURSIVE SortedOrders(_, _)
SortedOrders(rows, I) ==
    IF I = {} THEN {<<>>}
    ELSE LET first == {i \in I : \A j \in I :
                          ~Before(rows[j].datetime, rows[i].datetime)}
         IN UNION {{<<rows[i]>> \o t : t \in SortedOrders(rows, I \ {i})} :
                   i \in first}

\* Faulty variant of sort_values: the rows stay in Dataset order.
sort_values_not_sorted(rows) == {rows}

sort_values(rows) == SortedOrders(rows, DOMAIN rows)

\* Series.min() / max() skip NaT; of nothing they are NaT.
Stamps(rows) == {rows[i].datetime : i \in DOMAIN rows} \ {NaT}
DateMin(rows) == IF Stamps(rows) = {} THEN NaT ELSE Min(Stamps(rows))
DateMax(rows) == IF Stamps(rows) = {} THEN NaT ELSE Max(Stamps(rows))

\* filtered_data['close'].iloc[-1]
LatestClose(filtered_data) == filtered_data[Len(filtered_data)].close

\* filtered_data.tail(10)
tail(rows, n) ==
    IF Len(rows) <= n THEN rows ELSE SubSeq(rows, Len(rows) - n + 1, Len(rows))

ViewOf(symbols, selected_symbol, filtered_data) ==
    IF Len(filtered_data) = 0
    THEN [NoView EXCEPT !.success = TRUE, !.selector = TRUE,
                        !.symbols = symbols,
                        !.selected_symbol = selected_symbol,
                        !.warning = TRUE]
    ELSE [NoView EXCEPT !.success = TRUE, !.selector = TRUE,
                        !.symbols = symbols,
                        !.selected_symbol = selected_symbol,
                        !.filtered_data = filtered_data,
                        !.metrics = TRUE,
                        !.records = Len(filtered_data),
                        !.date_min = DateMin(filtered_data),
                        !.date_max = DateMax(filtered_data),
                        !.latest_close = LatestClose(filtered_data),
                        !.chart = TRUE,
                        !.table = tail(filtered_data, TailRows),
                        !.download = TRUE,
                        !.csv = filtered_data]

\* The views one pass can show for `load`: one for each symbol the user can
\* have selected and each order sort_values can give.
Views(load) ==
    IF ~load.ok THEN {NoView}
    ELSE IF Len(load.data) = 0 THEN {[NoView EXCEPT !.error = TRUE]}
    ELSE IF ~Comparable(unique(load.data))
         THEN {[NoView EXCEPT !.success = TRUE, !.raised = TRUE]}
    ELSE LET symbols == sorted(unique(load.data))
         IN UNION {{ViewOf(symbols, s, fd) :
                      fd \in sort_values(Filter(load.data, s))} :
                   s \in Range(symbols)}

(***************************************************************************)
(* The disk: for each folder path the user can type, whether it exists and *)
(* which *.csv files it holds.                                             *)
(***************************************************************************)
Paths == {"/data/a", "/data/b"}

FolderFiles(path) ==
    IF path = "/data/a" THEN {"broken.csv", "aapl.csv", "msft.csv"}
    ELSE {"baddate.csv"}

Missing == [exists |-> FALSE, files |-> {}]

Folders(path) ==
    {Missing} \cup
    {[exists |-> TRUE, files |-> F] :
        F \in {G \in SUBSET FolderFiles(path) : Cardinality(G) <= MaxFolderFiles}}

(***************************************************************************)
(* @st.cache_data on load_data_from_folder: one entry for each argument    *)
(* the function has returned for.  An entry keeps the returned value (None *)
(* included) and the messages the call showed, which a later call with the *)
(* same argument replays without running the body.  A call that raises     *)
(* stores nothing.                                                         *)
(***************************************************************************)
NotCached == [cached |-> FALSE, ok |-> FALSE, data |-> <<>>, reports |-> <<>>]

Replay(entry) ==
    [called |-> TRUE, returned |-> TRUE, ok |-> entry.ok, data |-> entry.data,
     reports |-> entry.reports, scanned |-> FALSE, files |-> <<>>, read |-> <<>>]

Memoize(entry, load) ==
    IF load.returned
    THEN [cached |-> TRUE, ok |-> load.ok, data |-> load.data,
          reports |-> load.reports]
    ELSE entry

\* Faulty variant of cache_data: the body runs on every call.
cache_data_always_runs(entry, folder) ==
    {[load |-> load_data_from_folder(files), hit |-> FALSE,
      entry |-> Memoize(entry, load_data_from_folder(files))] :
     files \in glob(folder)}

\* The calls load_data_from_folder(folder_path) can make, each with the
\* entry it leaves.
cache_data(entry, folder) ==
    IF entry.cached
    THEN {[load |-> Replay(entry), hit |-> TRUE, entry |-> entry]}
    ELSE {[load |-> load_data_from_folder(files), hit |-> FALSE,
           entry |-> Memoize(entry, load_data_from_folder(files))] :
          files \in glob(folder)}

(***************************************************************************)
(* One render pass.  info: an st.info prompt was shown; error: the         *)
(* st.error of lines 83 / 85; hit: the loader's result came from the memo  *)
(* table.                                                                  *)
(***************************************************************************)
Upload == "Upload CSV files"
Folder == "Load from folder"
NoCsv == "No CSV files found"
NoFolder == "Folder does not exist"

Pass(data_source, uploaded_files, folder_path, info, error, hit, load, view) ==
    [data_source |-> data_source, uploaded_files |-> uploaded_files,
     folder_path |-> folder_path, info |-> info, error |-> error,
     hit |-> hit, load |-> load, view |-> view]

\* Lines 59-70 and 89-144.
UploadScript(uploaded_files) ==
    IF uploaded_files # <<>>
    THEN LET load == load_uploaded_data(uploaded_files)
         IN {Pass(Upload, uploaded_files, "", FALSE, "", FALSE, load, view) :
                view \in Views(load)}
    ELSE {Pass(Upload, uploaded_files, "", TRUE, "", FALSE, NotCalled, NoView)}

\* Faulty variant of the folder branch: os.path.exists is not asked.
FolderScriptNoExists(folder_path, folder, entry) ==
    IF folder_path # ""
    THEN UNION {
           {[pass |-> Pass(Folder, <<>>, folder_path, FALSE,
                           IF c.load.returned /\ ~c.load.ok THEN NoCsv ELSE "",
                           c.hit, c.load, view),
             entry |-> c.entry] : view \in Views(c.load)} :
           c \in cache_data(entry, folder)}
    ELSE {[pass |-> Pass(Folder, <<>>, folder_path, TRUE, "", FALSE,
                         NotCalled, NoView),
           entry |-> entry]}

\* Lines 72-87 and 89-144: the passes for this path, each with the cache
\* entry of the path after it.
FolderScript(folder_path, folder, entry) ==
    IF folder_path # ""
    THEN IF folder.exists
         THEN UNION {
                {[pass |-> Pass(Folder, <<>>, folder_path, FALSE,
                                IF c.load.returned /\ ~c.load.ok
                                THEN NoCsv ELSE "",
                                c.hit, c.load, view),
                  entry |-> c.entry] : view \in Views(c.load)} :
                c \in cache_data(entry, folder)}
         ELSE {[pass |-> Pass(Folder, <<>>, folder_path, FALSE, NoFolder,
                              FALSE, NotCalled, NoView),
                entry |-> entry]}
    ELSE {[pass |-> Pass(Folder, <<>>, folder_path, TRUE, "", FALSE,
                         NotCalled, NoView),
           entry |-> entry]}

(***************************************************************************)
(* The state machine.                                                      *)
(***************************************************************************)
\* The app has just started: the radio is on its first option and nothing is
\* uploaded.  The disk is in any state.
Init ==
    /\ disk \in {d \in [Paths -> UNION {Folders(p) : p \in Paths}] :
                    \A p \in Paths : d[p] \in Folders(p)}
    /\ cache = [p \in Paths |-> NotCached]
    /\ pass \in UploadScript(<<>>)

UploadRun(names) ==
    \E uploaded_files \in SeqsUpTo(names, MaxUpload) :
        /\ pass' \in UploadScript(uploaded_files)
        /\ UNCHANGED <<disk, cache>>

\* The uploader is given a file that parses or one that does not.
UploadSome == UploadRun({"broken.csv", "aapl.csv"})

\* The uploader is given any files.
UploadAny == UploadRun(FileNames)

FolderRun ==
    \E folder_path \in Paths \cup {""} :
        LET folder == IF folder_path = "" THEN Missing ELSE disk[folder_path]
            entry == IF folder_path = "" THEN NotCached ELSE cache[folder_path]
        IN \E out \in FolderScript(folder_path, folder, entry) :
              /\ pass' = out.pass
              /\ cache' = IF folder_path = "" THEN cache
                          ELSE [cache EXCEPT ![folder_path] = out.entry]
              /\ UNCHANGED disk

\* Outside the program: a folder is created, removed, or its files change.
DiskChange ==
    \E p \in Paths : \E folder \in Folders(p) :
        /\ folder # disk[p]
        /\ disk' = [disk EXCEPT ![p] = folder]
        /\ UNCHANGED <<cache, pass>>

Next == UploadSome \/ FolderRun \/ DiskChange

Spec == Init /\ [][Next]_vars

\* Upload mode alone, the uploader given any files.  No pass reads the disk.
InitUpload ==
    /\ disk = [p \in Paths |-> Missing]
    /\ cache = [p \in Paths |-> NotCached]
    /\ pass \in UploadScript(<<>>)

NextUpload == UploadAny

SpecUpload == InitUpload /\ [][NextUpload]_vars

(***************************************************************************)
(* Vocabulary of the properties.                                           *)
(***************************************************************************)
Count(seq, x) == Cardinality({i \in DOMAIN seq : seq[i] = x})

\* The same rows, each as often.
SameRows(s, t) ==
    /\ Len(s) = Len(t)
    /\ \A x \in Range(s) \cup Range(t) : Count(s, x) = Count(t, x)

Last(seq) == seq[Len(seq)]

Parses(file) == FileContent(file).parses

RECURSIVE SumRows(_)
SumRows(files) ==
    IF files = <<>> THEN 0
    ELSE Len(FileContent(Head(files)).rows) + SumRows(Tail(files))

\* The rows of the files that parse, file after file, datetime coerced.
RECURSIVE RowsOf(_)
RowsOf(files) ==
    IF files = <<>> THEN <<>>
    ELSE (IF Parses(Head(files))
          THEN CoerceDatetime(FileContent(Head(files)).rows)
          ELSE <<>>) \o RowsOf(Tail(files))

\* The body of a loader ran in the last pass (its result is no replay).
BodyRan == pass.load.called /\ ~pass.hit

\* A step in which the script ran: it leaves the disk alone, and every step
\* that is no run of the script changes the disk.
ScriptRan == disk' = disk

FolderPassOn(p) == pass'.data_source = Folder /\ pass'.folder_path = p

(***************************************************************************)
(* C1.  In a pass that offers the selector, the Filtered View for the      *)
(* selected symbol S holds exactly the Dataset rows whose symbol == S,     *)
(* each as often as the Dataset holds it (== as pandas compares: a missing *)
(* symbol equals nothing), and its rows are in non-decreasing datetime     *)
(* order, rows without datetime last.  Every symbol of the selector is     *)
(* selected in some pass.                                                  *)
(***************************************************************************)
NotAfter(a, b) == b = NaT \/ (a # NaT /\ a <= b)

NonDecreasing(rows) ==
    \A i \in 1..(Len(rows) - 1) : NotAfter(rows[i].datetime, rows[i + 1].datetime)

RowsWithSymbol(data, S) ==
    IF S = NaN THEN <<>> ELSE SelectSeq(data, LAMBDA row : row.symbol = S)

C2_RowCount ==
    (/\ BodyRan
     /\ pass.load.files # <<>>
     /\ \A f \in Range(pass.load.files) : Parses(f)
     /\ pass.load.returned)
    => /\ pass.load.ok
       /\ Len(pass.load.data) = SumRows(pass.load.files)

\* Two files that parse, and the Dataset holds a row twice.
C2_Witness ==
    /\ BodyRan /\ pass.load.ok
    /\ Len(pass.load.files) >= 2
    /\ \A f \in Range(pass.load.files) : Parses(f)
    /\ \E i, j \in DOMAIN pass.load.data :
          i # j /\ pass.load.data[i] = pass.load.data[j]

(***************************************************************************)
(* C3.  An upload pass with at least one file, none of which parses, shows *)
(* an error naming each file and nothing else: no Dataset, no selector, no *)
(* Filtered View, no metrics, chart, table or download.                    *)
(***************************************************************************)
C3_AllUploadsFail ==
    (/\ pass.data_source = Upload
     /\ pass.uploaded_files # <<>>
     /\ \A f \in Range(pass.uploaded_files) : ~Parses(f))
    => /\ pass.load.reports = Reports("error", pass.uploaded_files)
       /\ pass.load.returned /\ ~pass.load.ok
       /\ pass.view = NoView

C3_Witness ==
    /\ pass.data_source = Upload
    /\ Len(pass.uploaded_files) >= 2
    /\ \A f \in Range(pass.uploaded_files) : ~Parses(f)

(***************************************************************************)
(* C4.  A folder pass whose non-empty path does not exist shows "Folder    *)
(* does not exist", does not call the loader (no glob, no read, memo table *)
(* untouched) and renders nothing.                                         *)
(***************************************************************************)
C4_MissingFolder ==
    [][\A p \in Paths :
          (ScriptRan /\ FolderPassOn(p) /\ ~disk[p].exists)
          => /\ pass'.error = NoFolder
             /\ ~pass'.load.called
             /\ ~pass'.load.scanned
             /\ pass'.load.read = <<>>
             /\ pass'.view = NoView
             /\ cache' = cache]_vars

\* The error is on screen for a path whose folder was loaded before.
C4_Witness ==
    /\ pass.data_source = Folder
    /\ pass.error = NoFolder
    /\ pass.folder_path \in Paths
    /\ cache[pass.folder_path].cached

(***************************************************************************)
(* C5.  Once load_data_from_folder has returned for path P, no later pass  *)
(* with path P runs glob or reads a file, and the loader result such a     *)
(* pass uses is the memoized one; a pass with a path that has no memoized  *)
(* result and exists runs glob on that path's folder.                      *)
(***************************************************************************)
C5_Memoized ==
    [][\A p \in Paths :
          (ScriptRan /\ FolderPassOn(p))
          => IF cache[p].cached
             THEN /\ ~pass'.load.scanned
                  /\ pass'.load.read = <<>>
                  /\ cache' = cache
                  /\ pass'.load.called =>
                        /\ pass'.hit
                        /\ pass'.load.ok = cache[p].ok
                        /\ pass'.load.data = cache[p].data
             ELSE disk[p].exists =>
                     /\ ~pass'.hit
                     /\ pass'.load.scanned
                     /\ pass'.load.files \in glob(disk[p])]_vars

\* The memoized Dataset is served although the folder holds no file now,
\* and the other path has its own memoized result.
C5_Witness ==
    /\ pass.hit /\ pass.load.ok
    /\ disk[pass.folder_path].exists
    /\ disk[pass.folder_path].files = {}
    /\ \A p \in Paths : cache[p].cached

(***************************************************************************)
(* C6.  Whenever the body of a loader (either one) ran over files of which *)
(* some do not parse and some do, and it returned: every file was handed   *)
(* to read_csv, those after a failing one too; each failing file is        *)
(* reported by name (error in upload mode, warning in folder mode); and    *)
(* the Dataset is the rows of the parsing files, file after file in the    *)
(* order the loop took them.                                               *)
(***************************************************************************)
C6_PartialFailure ==
    (/\ BodyRan
     /\ \E f \in Range(pass.load.files) : ~Parses(f)
     /\ \E f \in Range(pass.load.files) : Parses(f)
     /\ pass.load.returned)
    => /\ pass.load.read = pass.load.files
       /\ pass.load.reports =
             Reports(IF pass.data_source = Upload THEN "error" ELSE "warning",
                     SelectSeq(pass.load.files, LAMBDA f : ~Parses(f)))
       /\ pass.load.ok
       /\ pass.load.data = RowsOf(pass.load.files)

\* Folder mode, the failing file first and a parsing file after it.
C6_Witness ==
    /\ BodyRan /\ pass.load.ok
    /\ pass.data_source = Folder
    /\ Len(pass.load.files) >= 2
    /\ ~Parses(pass.load.files[1])
    /\ pass.load.data # <<>>

(***************************************************************************)
(* C7.  Every pass with a non-empty Dataset gives the selector an option   *)
(* list that holds each symbol value of the Dataset once, holds nothing    *)
(* else and is in ascending order.                                         *)
(***************************************************************************)
C7_SymbolOptions ==
    (pass.load.ok /\ Len(pass.load.data) > 0)
    => /\ pass.view.selector
       /\ Range(pass.view.symbols) = {pass.load.data[i].symbol : i \in DOMAIN pass.load.data}
       /\ \A i, j \in DOMAIN pass.view.symbols :
             i < j => StrRank(pass.view.symbols[i]) < StrRank(pass.view.symbols[j])

(***************************************************************************)
(* C8.  Whenever the metrics are shown, "Latest Close" is the close of the *)
(* last row of the Filtered View, and that row's datetime is the maximum   *)
(* datetime of the view.                                                   *)
(***************************************************************************)
IsMaxDatetime(d, rows) ==
    /\ d # NaT
    /\ \A i \in DOMAIN rows : rows[i].datetime # NaT => rows[i].datetime <= d

C8_LatestClose ==
    pass.view.metrics =>
        /\ pass.view.latest_close = Last(pass.view.filtered_data).close
        /\ IsMaxDatetime(Last(pass.view.filtered_data).datetime,
                         pass.view.filtered_data)

(***************************************************************************)
(* C9.  A failure does not outlive its pass: a folder pass on a path whose *)
(* earlier load found no usable CSV file gets the Dataset (or the failure) *)
(* that loading the folder as it is on disk now gives.                     *)
(***************************************************************************)
Outcome(load) == [ok |-> load.ok, data |-> load.data]

FreshOutcomes(folder) ==
    {Outcome(load_data_from_folder(files)) : files \in glob(folder)}

C9_FreshAttempt ==
    [][\A p \in Paths :
          (/\ ScriptRan /\ FolderPassOn(p)
           /\ disk[p].exists
           /\ cache[p].cached /\ ~cache[p].ok)
          => Outcome(pass'.load) \in FreshOutcomes(disk[p])]_vars

(***************************************************************************)
(* C10.  In every pass that offers the selector the Filtered View of the   *)
(* selected symbol is non-empty and the "No data found for selected        *)
(* symbol" warning is not shown; and a pass whose Filtered View is empty   *)
(* shows the warning and no metrics, chart, table or download.             *)
(***************************************************************************)
C10_WarningNeverShown ==
    /\ pass.view.selector =>
          /\ Len(pass.view.filtered_data) > 0
          /\ ~pass.view.warning
    /\ (pass.view.selector /\ Len(pass.view.filtered_data) = 0) =>
          /\ pass.view.warning
          /\ ~pass.view.metrics /\ ~pass.view.chart /\ ~pass.view.download
          /\ pass.view.table = <<>>

====
